---- MODULE Spec2Model ----
(***************************************************************************)
(* Model of the BLE connection-lifecycle controller of heart-monitor:      *)
(* class BluetoothHeartRateMonitor (src/unnamed/part_000).                 *)
(*                                                                         *)
(* JavaScript runs one callback at a time.  An async method runs           *)
(* synchronously up to its first await of a native (adapter / permission)  *)
(* promise and is suspended there; every such suspension is a task with a  *)
(* pc.  The code that follows the await, up to the next native await, is   *)
(* one atomic step (promise continuations are microtasks and are drained   *)
(* before the next timer or adapter event is dispatched).                  *)
(*                                                                         *)
(* The adapter (react-native-ble-plx BleManager), the permission dialog    *)
(* and the operator are the environment: they choose results and the       *)
(* order in which pending requests complete.                               *)
(***************************************************************************)
EXTENDS Integers, FiniteSets, Sequences, Bags, TLC

\* ---------------------------------------------------------------- bounds
NumDevices == 2      \* peripherals in radio range
MaxTasks   == 3      \* async method invocations suspended at the same time
MaxOps     == 2      \* operator calls in one run, besides the destroy()
MaxFail    == 1      \* adapter requests that fail in one run

\* ------------------------------------------------------- program constants
heartRateMin == 30
heartRateMax == 220

Null     == 0
Devs     == 1..NumDevices
\* identities of scans and of adapter-readiness waits (timer handles and
\* listeners); an identity nothing refers to any more is used again
Sessions == 1..(MaxTasks + 3)

VARIABLES
  \* fields of BluetoothHeartRateMonitor (constructor, lines 20-34)
  connectedDevice, isScanning, scanTimeoutId, charSubscription,
  deviceDisconnectedSubscription, stateSubscription, ensureOnTimeoutId,
  _destroyed,
  \* JavaScript runtime: suspended async invocations and armed timers
  tasks, scanTimers, ensureTimers, rescanTimers,
  \* adapter: active scan, connected peripherals, registered listeners
  adScan, adConnected, regChar, regDisc, regState, adDestroyed,
  \* what the option callbacks last delivered to the UI
  lastState, lastName, lastHR,
  \* history: terminal events acted on and connects initiated in the scan
  \* started last; what the environment may still do
  termCount, connCount, opsLeft, failsLeft,
  \* the decoder on its own: the bytes of a measurement and what
  \* _parseHeartRate made of their base64 form
  payload, parsed

vars == <<connectedDevice, isScanning, scanTimeoutId, charSubscription,
          deviceDisconnectedSubscription, stateSubscription, ensureOnTimeoutId,
          _destroyed, tasks, scanTimers, ensureTimers, rescanTimers,
          adScan, adConnected, regChar, regDisc, regState, adDestroyed,
          lastState, lastName, lastHR,
          termCount, connCount, opsLeft, failsLeft, payload, parsed>>

\* The current state as one record, so that the statements of a method can
\* be composed in program order; Commit makes a record the next state.
Cur ==
  [connectedDevice |-> connectedDevice, isScanning |-> isScanning,
   scanTimeoutId |-> scanTimeoutId, charSubscription |-> charSubscription,
   deviceDisconnectedSubscription |-> deviceDisconnectedSubscription,
   stateSubscription |-> stateSubscription,
   ensureOnTimeoutId |-> ensureOnTimeoutId, destroyed |-> _destroyed,
   tasks |-> tasks, scanTimers |-> scanTimers, ensureTimers |-> ensureTimers,
   rescanTimers |-> rescanTimers, adScan |-> adScan,
   adConnected |-> adConnected, regChar |-> regChar, regDisc |-> regDisc,
   regState |-> regState, adDestroyed |-> adDestroyed,
   lastState |-> lastState, lastName |-> lastName, lastHR |-> lastHR,
   termCount |-> termCount, connCount |-> connCount,
   opsLeft |-> opsLeft, failsLeft |-> failsLeft]

\* the controller, the adapter and the runtime take the values of record s
CommitController(s) ==
  /\ connectedDevice' = s.connectedDevice
  /\ isScanning' = s.isScanning
  /\ scanTimeoutId' = s.scanTimeoutId
  /\ charSubscription' = s.charSubscription
  /\ deviceDisconnectedSubscription' = s.deviceDisconnectedSubscription
  /\ stateSubscription' = s.stateSubscription
  /\ ensureOnTimeoutId' = s.ensureOnTimeoutId
  /\ _destroyed' = s.destroyed
  /\ tasks' = s.tasks
  /\ scanTimers' = s.scanTimers
  /\ ensureTimers' = s.ensureTimers
  /\ rescanTimers' = s.rescanTimers
  /\ adScan' = s.adScan
  /\ adConnected' = s.adConnected
  /\ regChar' = s.regChar
  /\ regDisc' = s.regDisc
  /\ regState' = s.regState
  /\ adDestroyed' = s.adDestroyed
  /\ lastState' = s.lastState
  /\ lastName' = s.lastName
  /\ lastHR' = s.lastHR
  /\ termCount' = s.termCount
  /\ connCount' = s.connCount
  /\ opsLeft' = s.opsLeft
  /\ failsLeft' = s.failsLeft

Commit(s) == CommitController(s) /\ UNCHANGED <<payload, parsed>>

\* ------------------------------------------------------------ task pool
\* tasks is the bag of suspended async invocations.  pc: the await it is
\* suspended at; cont: who awaits its return; dev: the peripheral of the
\* pending request; id: the wait of a startScan in the gate, or the scan
\* whose timer called stopScan, or the scan that was running when destroy()
\* was called; scan: the adapter scan that was active when stopScan was
\* called (the one the stop request ends).
Idle == [pc |-> "idle", cont |-> "none", dev |-> Null, id |-> Null, scan |-> Null]

Task(pc) == [Idle EXCEPT !.pc = pc]

CanSpawn(s, n) == BagCardinality(s.tasks) + n <= MaxTasks

\* suspend a new async invocation
Spawn(s, rec) == [s EXCEPT !.tasks = @ (+) SetToBag({rec})]

\* the invocation r has returned, or moves on to its next await
Finish(s, r) == [s EXCEPT !.tasks = @ (-) SetToBag({r})]

Inc2(n) == IF n >= 2 THEN 2 ELSE n + 1

\* ------------------------------------------------- emitters (lines 326-349)
_setScanningState(s, value) == [s EXCEPT !.isScanning = value]

_emitConnectionState(s, state) ==
  [s EXCEPT !.lastState = state]

_emitDeviceName(s, name) ==
  [s EXCEPT !.lastName = name]

_emitHeartRate(s, rate) ==
  [s EXCEPT !.lastHR = rate]

\* ------------------------------------------- timer handles (lines 351-363)
_clearScanTimeout(s) ==
  IF s.scanTimeoutId # Null
  THEN [s EXCEPT !.scanTimers = @ \ {s.scanTimeoutId}, !.scanTimeoutId = Null]
  ELSE s

_clearEnsureOnTimeout(s) ==
  IF s.ensureOnTimeoutId # Null
  THEN [s EXCEPT !.ensureTimers = @ \ {s.ensureOnTimeoutId},
                 !.ensureOnTimeoutId = Null]
  ELSE s

\* --------------------------------------------- subscription bookkeeping
\* subscription?.remove() on the adapter side
RemoveChar(s) ==
  IF s.charSubscription # Null
  THEN [s EXCEPT !.regChar[s.charSubscription] = @ - 1]
  ELSE s

RemoveDisc(s) ==
  IF s.deviceDisconnectedSubscription # Null
  THEN [s EXCEPT !.regDisc[s.deviceDisconnectedSubscription] = @ - 1]
  ELSE s

RemoveStateSub(s) ==
  [s EXCEPT !.regState = @ \ {s.stateSubscription}, !.stateSubscription = Null]

\* only the notification subscription is released
_unsubConnectedDevice_CharOnly(s) ==
  [RemoveChar(s) EXCEPT !.charSubscription = Null]

_unsubConnectedDevice(s) ==
  LET s1 == [RemoveChar(s) EXCEPT !.charSubscription = Null]
  IN  [RemoveDisc(s1) EXCEPT !.deviceDisconnectedSubscription = Null]

\* ------------------------------------------------------------ decoder
\* a decoder that reads the rate as one byte whatever the flags say
_parseHeartRate_8Bit(buffer) ==
  IF Len(buffer) < 2 THEN Null
  ELSE IF buffer[2] < heartRateMin \/ buffer[2] > heartRateMax
       THEN Null ELSE buffer[2]

\* _parseHeartRate, lines 308-324, on the decoded bytes of the payload.
\* readUInt16LE(1) on a two-byte buffer throws; the catch returns null.
_parseHeartRate(buffer) ==
  IF Len(buffer) < 2 THEN Null
  ELSE LET flags   == buffer[1]
           is16Bit == (flags % 2) = 1
       IN  IF is16Bit /\ Len(buffer) < 3 THEN Null
           ELSE LET value == IF is16Bit THEN buffer[2] + 256 * buffer[3]
                                        ELSE buffer[2]
                IN  IF value < heartRateMin \/ value > heartRateMax
                    THEN Null ELSE value

\* characteristic.value is the base64 text of the measurement: a sequence of
\* 6-bit digits, filled up with Pad to a multiple of four
Pad == 64

Base64(bytes) ==
  LET n == Len(bytes)
      digit(k) ==            \* digit k (from 0) of the unpadded text
        LET b == bytes[((k \div 4) * 3) + 1]
            c == IF ((k \div 4) * 3) + 2 <= n THEN bytes[((k \div 4) * 3) + 2] ELSE 0
            e == IF ((k \div 4) * 3) + 3 <= n THEN bytes[((k \div 4) * 3) + 3] ELSE 0
        IN  CASE k % 4 = 0 -> b \div 4
              [] k % 4 = 1 -> ((b % 4) * 16) + (c \div 16)
              [] k % 4 = 2 -> ((c % 16) * 4) + (e \div 64)
              [] OTHER     -> e % 64
      digits == ((n \div 3) * 4) + (IF n % 3 = 0 THEN 0 ELSE (n % 3) + 1)
  IN  [k \in 1..(((n + 2) \div 3) * 4) |->
         IF k <= digits THEN digit(k - 1) ELSE Pad]

\* Buffer.from(base64Value, 'base64'), line 310
BufferFrom(base64Value) ==
  LET digits == Cardinality({k \in 1..Len(base64Value) : base64Value[k] # Pad})
      n == ((digits \div 4) * 3) + (IF digits % 4 <= 1 THEN 0 ELSE (digits % 4) - 1)
      at(k) == IF k <= digits THEN base64Value[k] ELSE 0
  IN  [i \in 1..n |->
         LET g == ((i - 1) \div 3) * 4
         IN  CASE (i - 1) % 3 = 0 -> (at(g + 1) * 4) + (at(g + 2) \div 16)
               [] (i - 1) % 3 = 1 -> ((at(g + 2) % 16) * 16) + (at(g + 3) \div 4)
               [] OTHER           -> ((at(g + 3) % 4) * 64) + at(g + 4)]

\* notification payloads the peripheral sends in this model
Payloads == { <<>>, <<0, 75>>, <<1, 75, 0>>, <<0, 5>>, <<1, 75>> }

\* -------------------------------------------------------- identities
Least(S) == CHOOSE x \in S : \A y \in S : x <= y

\* a wait no timer, listener, handle or suspended startScan refers to
FreshWait(s) ==
  Least(Sessions \ (s.regState \cup s.ensureTimers
                      \cup {s.ensureOnTimeoutId, s.stateSubscription}
                      \cup {r.id : r \in {x \in BagToSet(s.tasks) : x.pc = "bt"}}))

\* a scan no timer, handle, stop request or adapter scan refers to
FreshScan(s) ==
  Least(Sessions \ (s.scanTimers \cup {s.scanTimeoutId, s.adScan}
                      \cup {r.id : r \in {x \in BagToSet(s.tasks) : x.pc = "stopScan"}}
                      \cup {r.scan : r \in {x \in BagToSet(s.tasks) : x.pc = "stopScan"}}))

\* ----------------------------------------------------------- stopScan
\* stopScan, lines 152-157: up to the await of bleManager.stopDeviceScan().
\* The adapter handles requests in the order they are made: the request ends
\* the scan that is active now, which may go on reporting until the request
\* has completed.
stopScanBegin(s, cont, id) ==
  LET s1 == _clearScanTimeout(_unsubConnectedDevice(s))
  IN  Spawn(s1, [Task("stopScan") EXCEPT !.cont = cont, !.id = id,
                                         !.scan = s1.adScan])

\* a stopScan that leaves the scanning flag alone when the request failed
stopScanEnd_KeepsFlagOnError(s, r, ok) ==
  IF ok
  THEN _setScanningState(
         Finish(IF s.adScan = r.scan THEN [s EXCEPT !.adScan = Null] ELSE s, r),
         FALSE)
  ELSE Finish(s, r)

\* stopScan, lines 158-162: stopDeviceScan has settled (ok or thrown).
stopScanEnd(s, r, ok) ==
  LET s1 == IF ok /\ s.adScan = r.scan THEN [s EXCEPT !.adScan = Null] ELSE s
  IN  _setScanningState(Finish(s1, r), FALSE)

\* ---------------------------------------------------------- startScan
\* startScan, lines 96-103: up to the await of _requestPermission().
startScan(s) ==
  LET s1 == _unsubConnectedDevice(s)
  IN  IF s1.isScanning THEN s1
      ELSE Spawn(s1, Task("perm"))

\* a gate that starts a new wait without cancelling the outstanding one
_ensureBluetoothOn_NoCancel(s) ==
  LET k  == FreshWait(s)
      s2 == [s EXCEPT !.ensureOnTimeoutId = k, !.ensureTimers = @ \cup {k},
                      !.stateSubscription = k, !.regState = @ \cup {k}]
  IN  Spawn(s2, [Task("bt") EXCEPT !.id = k])

\* _ensureBluetoothOn, lines 278-305: a new wait with its timer and its
\* adapter-state listener; the calling startScan is suspended on it.
_ensureBluetoothOn(s) ==
  LET s1 == RemoveStateSub(_clearEnsureOnTimeout(s))
      k  == FreshWait(s1)
      s2 == [s1 EXCEPT !.ensureOnTimeoutId = k, !.ensureTimers = @ \cup {k},
                       !.stateSubscription = k, !.regState = @ \cup {k}]
  IN  Spawn(s2, [Task("bt") EXCEPT !.id = k])

\* startScan, lines 118-149: the gate resolved; the scan is started.
scanStart(s) ==
  LET id == FreshScan(s)
      s1 == _setScanningState(_emitConnectionState(s, "scanning"), TRUE)
      s2 == [s1 EXCEPT !.adScan = id, !.termCount = 0, !.connCount = 0]
      s3 == _clearScanTimeout(s2)
  IN  [s3 EXCEPT !.scanTimeoutId = id, !.scanTimers = @ \cup {id}]

\* the startScan suspended on wait k, if it is still there
Waiting(s, k) == {r \in BagToSet(s.tasks) : r.pc = "bt" /\ r.id = k}

\* ------------------------------------------------- _connectAndMonitor
\* lines 186-190: the catch block; the retry is the prefix of startScan.
connectFailed(s, r) ==
  LET s1 == Finish(_emitConnectionState(s, "connect_error"), r)
  IN  startScan(s1)

\* lines 168-172: connect() resolved.
connectSucceeded(s, r) ==
  LET d  == r.dev
      s1 == [s EXCEPT !.adConnected = @ \cup {d}, !.connectedDevice = d]
      s2 == _emitConnectionState(_emitDeviceName(s1, d), "connected")
  IN  Spawn(Finish(s2, r), [r EXCEPT !.pc = "discover"])

\* subscribe without removing the subscriptions it replaces
subscribe_NoRemove(s, r) ==
  LET d  == r.dev
      s1 == [s EXCEPT !.deviceDisconnectedSubscription = d,
                      !.regDisc[d] = Inc2(@)]
      s2 == [s1 EXCEPT !.charSubscription = d, !.regChar[d] = Inc2(@)]
  IN  Finish(s2, r)

\* lines 174-185: discovery resolved; both subscriptions are established.
subscribe(s, r) ==
  LET d  == r.dev
      s1 == RemoveDisc(s)
      s2 == [s1 EXCEPT !.deviceDisconnectedSubscription = d,
                       !.regDisc[d] = Inc2(@)]
      s3 == RemoveChar(s2)
      s4 == [s3 EXCEPT !.charSubscription = d, !.regChar[d] = Inc2(@)]
  IN  Finish(s4, r)

\* ---------------------------------------------------- rescan / disconnect
\* the debounce timer armed without clearing device name and heart rate
rescanTail_NoClear(s) ==
  [s EXCEPT !.rescanTimers = @ + 1]

\* rescan, lines 70-74: the emits and the debounce timer.
rescanTail(s) ==
  LET s1 == _emitHeartRate(_emitDeviceName(s, Null), Null)
  IN  [s1 EXCEPT !.rescanTimers = @ + 1]

\* what the caller of disconnect() does when it returns
afterDisconnect(s, cont) == IF cont = "rescan" THEN rescanTail(s) ELSE s

\* disconnect, lines 77-84: up to the await of isDeviceConnected.
disconnect(s, cont) ==
  LET s1 == _unsubConnectedDevice(s)
  IN  IF s1.connectedDevice = Null THEN afterDisconnect(s1, cont)
      ELSE Spawn(s1, [Task("disc_isconn") EXCEPT !.cont = cont,
                                                 !.dev = s1.connectedDevice])

\* disconnect, lines 91-93: the finally block, then the caller.
disconnectEnd(s, r) ==
  afterDisconnect([Finish(s, r) EXCEPT !.connectedDevice = Null], r.cont)

\* -------------------------------------------------- _handleDisconnection
\* the handler ends by starting a new scan by itself
handleDisconnectionTail_Restart(s) ==
  startScan(_emitHeartRate(_emitDeviceName(
    _emitConnectionState([s EXCEPT !.connectedDevice = Null],
                         "disconnected"), Null), Null))

\* lines 240-243
handleDisconnectionTail(s) ==
  LET s1 == [s EXCEPT !.connectedDevice = Null]
  IN  _emitHeartRate(_emitDeviceName(
        _emitConnectionState(s1, "disconnected"), Null), Null)

\* ------------------------------------------------------------- destroy
\* destroy, lines 50-61, after the await of stopScan().
destroyAfterStop(s, r) ==
  IF s.connectedDevice # Null
  THEN Spawn(s, [r EXCEPT !.pc = "destroy_isconn", !.dev = s.connectedDevice])
  ELSE Spawn(s, [r EXCEPT !.pc = "destroy_mgr"])

\* the code that awaited stopScan() resumes (same microtask drain)
afterStopScan(s, r) ==
  CASE r.cont = "timeout" -> _emitConnectionState(s, "no_device")
    [] r.cont = "hdisc"   -> handleDisconnectionTail(s)
    [] r.cont = "rescan"  -> disconnect(s, "rescan")
    [] r.cont = "destroy" -> destroyAfterStop(s, r)
    [] OTHER              -> s

\* an adapter request fails or throws: at most MaxFail times in one run
Failed(s) == [s EXCEPT !.failsLeft = @ - 1]

Outcomes == IF failsLeft > 0 THEN BOOLEAN ELSE {TRUE}

AdapterStates == {"PoweredOn", "PoweredOff", "Unauthorized", "Resetting"}

\* ------------------------------------------------------------------ Init
\* the constructor, lines 20-34; nothing is pending, nothing was emitted
Init ==
  /\ connectedDevice = Null
  /\ isScanning = FALSE
  /\ scanTimeoutId = Null
  /\ charSubscription = Null
  /\ deviceDisconnectedSubscription = Null
  /\ stateSubscription = Null
  /\ ensureOnTimeoutId = Null
  /\ _destroyed = FALSE
  /\ tasks = EmptyBag
  /\ scanTimers = {}
  /\ ensureTimers = {}
  /\ rescanTimers = 0
  /\ adScan = Null
  /\ adConnected = {}
  /\ regChar = [d \in Devs |-> 0]
  /\ regDisc = [d \in Devs |-> 0]
  /\ regState = {}
  /\ adDestroyed = FALSE
  /\ lastState = "idle"
  /\ lastName = Null
  /\ lastHR = Null
  /\ termCount = 0
  /\ connCount = 0
  /\ opsLeft = MaxOps
  /\ failsLeft = MaxFail
  /\ payload = <<>>
  /\ parsed = Null

\* ------------------------------------------------- the operator's calls
\* start(), lines 36-38
Start ==
  /\ opsLeft > 0 /\ ~_destroyed
  /\ LET s0 == [Cur EXCEPT !.opsLeft = @ - 1]
     IN  /\ s0.isScanning \/ CanSpawn(s0, 1)
         /\ Commit(startScan(s0))

\* stopScan() called by the operator
StopScan ==
  /\ opsLeft > 0 /\ ~_destroyed /\ CanSpawn(Cur, 1)
  /\ Commit(stopScanBegin([Cur EXCEPT !.opsLeft = @ - 1], "none", Null))

\* disconnect() called by the operator
Disconnect ==
  /\ opsLeft > 0 /\ ~_destroyed
  /\ connectedDevice = Null \/ CanSpawn(Cur, 1)
  /\ Commit(disconnect([Cur EXCEPT !.opsLeft = @ - 1], "none"))

\* rescan(), lines 67-68: up to the await inside stopScan()
Rescan ==
  /\ opsLeft > 0 /\ ~_destroyed /\ CanSpawn(Cur, 1)
  /\ Commit(stopScanBegin([Cur EXCEPT !.opsLeft = @ - 1], "rescan", Null))

\* destroy(), lines 40-48: up to the await inside stopScan()
Destroy ==
  /\ (~_destroyed \/ opsLeft > 0) /\ CanSpawn(Cur, 1)
  /\ LET s0 == [Cur EXCEPT !.opsLeft = IF _destroyed THEN @ - 1 ELSE @,
                           !.destroyed = TRUE]
         s1 == _clearEnsureOnTimeout(_clearScanTimeout(s0))
         s2 == _unsubConnectedDevice(RemoveStateSub(s1))
         \* the scan, if any, that is running (timer pending) at this call
         id == IF isScanning /\ scanTimeoutId \in scanTimers
               THEN scanTimeoutId ELSE Null
     IN  Commit(stopScanBegin(s2, "destroy", id))

\* the debounce timer of rescan() fires, lines 72-74
RescanTimer ==
  /\ rescanTimers > 0
  /\ LET s0 == [Cur EXCEPT !.rescanTimers = @ - 1]
     IN  /\ s0.isScanning \/ CanSpawn(s0, 1)
         /\ Commit(startScan(s0))

\* ------------------------------------------------------------ startScan
\* the denial is reported but startScan goes on to the readiness gate
PermissionResult_Proceeds(r) ==
  /\ r.pc = "perm"
  /\ \E granted \in BOOLEAN :
       IF granted
       THEN Commit(_ensureBluetoothOn(Finish(Cur, r)))
       ELSE Commit(_ensureBluetoothOn(
                     Finish(_emitConnectionState(Cur, "permission_denied"), r)))

\* _requestPermission() settled, lines 103-111
PermissionResult(r) ==
  /\ r.pc = "perm"
  /\ \E granted \in BOOLEAN :
       IF granted
       THEN Commit(_ensureBluetoothOn(Finish(Cur, r)))
       ELSE Commit(Finish(_emitConnectionState(Cur, "permission_denied"), r))

\* a listener that fails the wait when the adapter is off or unauthorized
AdapterStateChange_OffFails(k) ==
  /\ k \in regState /\ ~adDestroyed
  /\ \E st \in AdapterStates :
       IF _destroyed
       THEN Commit(RemoveStateSub(Cur))
       ELSE IF st = "PoweredOn"
       THEN LET s1 == RemoveStateSub(_clearEnsureOnTimeout(Cur))
            IN  IF Waiting(s1, k) # {}
                THEN \E r \in Waiting(s1, k) : Commit(scanStart(Finish(s1, r)))
                ELSE Commit(s1)
       ELSE IF st \in {"PoweredOff", "Unauthorized"}
       THEN LET s1 == RemoveStateSub(_clearEnsureOnTimeout(
                        _emitConnectionState(Cur, "bluetooth_off")))
            IN  IF Waiting(s1, k) # {}
                THEN \E r \in Waiting(s1, k) : Commit(Finish(s1, r))
                ELSE Commit(s1)
       ELSE UNCHANGED vars

\* the adapter reports its power state to the listener of wait k,
\* lines 290-304; PoweredOn resolves the wait and startScan goes on
AdapterStateChange(k) ==
  /\ k \in regState /\ ~adDestroyed
  /\ \E st \in AdapterStates :
       IF _destroyed
       THEN Commit(RemoveStateSub(Cur))
       ELSE IF st = "PoweredOn"
       THEN LET s1 == RemoveStateSub(_clearEnsureOnTimeout(Cur))
            IN  IF Waiting(s1, k) # {}
                THEN \E r \in Waiting(s1, k) : Commit(scanStart(Finish(s1, r)))
                ELSE Commit(s1)
       ELSE IF st \in {"PoweredOff", "Unauthorized"}
       THEN Commit(_emitConnectionState(Cur, "bluetooth_off"))
       ELSE UNCHANGED vars

\* the timer rejects the wait but leaves the adapter-state listener registered
EnsureTimeout_KeepsListener(k) ==
  /\ k \in ensureTimers
  /\ LET s1 == [Cur EXCEPT !.ensureTimers = @ \ {k}]
     IN  IF Waiting(s1, k) # {}
         THEN \E r \in Waiting(s1, k) :
                Commit(Finish(_emitConnectionState(s1, "bluetooth_off"), r))
         ELSE Commit(s1)

\* the timer of wait k fires, lines 284-288; startScan's catch, lines 112-116
EnsureTimeout(k) ==
  /\ k \in ensureTimers
  /\ LET s1 == RemoveStateSub([Cur EXCEPT !.ensureTimers = @ \ {k}])
     IN  IF Waiting(s1, k) # {}
         THEN \E r \in Waiting(s1, k) :
                Commit(Finish(_emitConnectionState(s1, "bluetooth_off"), r))
         ELSE Commit(s1)

\* ------------------------------------------------------ the scan callback
\* lines 121-132: the adapter reports a scan error
ScanError ==
  /\ adScan # Null /\ ~adDestroyed
  /\ IF _destroyed THEN UNCHANGED vars
     ELSE /\ CanSpawn(Cur, 1)
          /\ LET s1 == stopScanBegin(Cur, "none", Null)
                 s2 == _emitConnectionState(s1, "scan_error")
             IN  Commit([s2 EXCEPT !.termCount = Inc2(@)])

\* lines 121-139: the adapter reports an advertising peripheral
ScanResult(d) ==
  /\ adScan # Null /\ ~adDestroyed /\ d \notin adConnected
  /\ \E named \in BOOLEAN :
       IF _destroyed \/ ~named THEN UNCHANGED vars
       ELSE /\ CanSpawn(Cur, 2)
            /\ LET s1 == stopScanBegin(Cur, "none", Null)
                   s2 == _emitConnectionState(s1, "connecting")
                   s3 == Spawn(s2, [Task("connect") EXCEPT !.dev = d])
               IN  Commit([s3 EXCEPT !.termCount = Inc2(@),
                                     !.connCount = Inc2(@)])

\* the scan timer of scan id fires, lines 143-147
ScanTimeout(id) ==
  /\ id \in scanTimers
  /\ LET s0 == [Cur EXCEPT !.scanTimers = @ \ {id}]
     IN  IF ~isScanning \/ _destroyed THEN Commit(s0)
         ELSE /\ CanSpawn(Cur, 1)
              /\ Commit([stopScanBegin(s0, "timeout", id)
                           EXCEPT !.termCount = Inc2(@)])

\* stopDeviceScan() settled, lines 158-162, and the caller resumes
StopScanDone(r) ==
  /\ r.pc = "stopScan"
  /\ \/ Commit(afterStopScan(stopScanEnd(Cur, r, TRUE), r))
     \/ /\ failsLeft > 0
        /\ Commit(afterStopScan(stopScanEnd(Failed(Cur), r, FALSE), r))

\* ---------------------------------------------------- _connectAndMonitor
\* device.connect() settled, lines 167-172 or 186-190
ConnectDone(r) ==
  /\ r.pc = "connect"
  /\ \/ /\ ~adDestroyed
        /\ Commit(connectSucceeded(Cur, r))
     \/ /\ adDestroyed
        /\ Commit(connectFailed(Cur, r))
     \/ /\ ~adDestroyed /\ failsLeft > 0
        /\ Commit(connectFailed(Failed(Cur), r))

\* discoverAllServicesAndCharacteristics() settled, lines 172-185 or 186-190
DiscoverDone(r) ==
  /\ r.pc = "discover"
  /\ \/ /\ ~adDestroyed /\ r.dev \in adConnected
        /\ Commit(subscribe(Cur, r))
     \/ /\ adDestroyed
        /\ Commit(connectFailed(Cur, r))
     \/ /\ ~adDestroyed /\ failsLeft > 0
        /\ Commit(connectFailed(Failed(Cur), r))

\* ------------------------------------------------ _handleBleCharacteristic
\* error messages the adapter passes to the notification listener, as words
\* (<<>>: an error without a message)
ErrorMessages ==
  { <<>>,
    <<"Operation", "was", "cancelled">>,
    <<"Operation", "was", "Cancelled">>,
    <<"Device", "Disconnected">>,
    <<"device", "was", "disconnected">>,
    <<"GATT", "error">>,
    <<"Connection", "Terminated">>,
    <<"Characteristic", "not", "found">>,
    <<"Device", "not", "found">> }

\* String.prototype.toLowerCase on the words of these messages, line 198
toLowerCase(word) ==
  CASE word = "Cancelled"    -> "cancelled"
    [] word = "Device"       -> "device"
    [] word = "Disconnected" -> "disconnected"
    [] word = "GATT"         -> "gatt"
    [] word = "Terminated"   -> "terminated"
    [] word = "Operation"    -> "operation"
    [] word = "Connection"   -> "connection"
    [] word = "Characteristic" -> "characteristic"
    [] OTHER                 -> word

\* msg.includes(part), at the granularity of words
includes(msg, part) ==
  \E i \in 0..(Len(msg) - Len(part)) :
    \A j \in 1..Len(part) : msg[i + j] = part[j]

\* lines 198-204: is the error one that goes with a disconnect?
Ignorable(message) ==
  LET msg == [i \in 1..Len(message) |-> toLowerCase(message[i])]
  IN  \/ includes(msg, <<"cancelled">>)
      \/ includes(msg, <<"device", "disconnected">>)
      \/ includes(msg, <<"gatt">>)
      \/ includes(msg, <<"terminated">>)

\* the listener reacts to a stream error by giving the connection up
MonitorError_Recovers(d) ==
  /\ regChar[d] > 0 /\ ~adDestroyed
  /\ \E message \in ErrorMessages :
       IF _destroyed \/ Ignorable(message) THEN UNCHANGED vars
       ELSE Commit(_unsubConnectedDevice(
                     _emitConnectionState(Cur, "monitor_error")))

\* lines 193-209: the notification listener of peripheral d gets an error
MonitorError(d) ==
  /\ regChar[d] > 0 /\ ~adDestroyed
  /\ \E message \in ErrorMessages :
       IF _destroyed \/ Ignorable(message) THEN UNCHANGED vars
       ELSE Commit(_emitConnectionState(Cur, "monitor_error"))

\* a listener that reports a measurement it cannot use as a stream error
_handleBleCharacteristic_ReportsBad(s, bytes) ==
  IF s.destroyed \/ bytes = <<>> THEN s
  ELSE LET rate == _parseHeartRate(BufferFrom(Base64(bytes)))
       IN  IF rate = Null THEN _emitConnectionState(s, "monitor_error")
           ELSE _emitHeartRate(s, rate)

\* lines 194-196 and 210-217: the notification listener is called without
\* error, with the characteristic whose value is the base64 text of bytes
\* (no bytes: no value)
_handleBleCharacteristic(s, bytes) ==
  IF s.destroyed \/ bytes = <<>> THEN s
  ELSE LET rate == _parseHeartRate(BufferFrom(Base64(bytes)))
       IN  IF rate = Null THEN s
           ELSE _emitHeartRate(s, rate)

\* lines 193-217: the notification listener of peripheral d gets a payload
Notification(d) ==
  /\ regChar[d] > 0 /\ ~adDestroyed /\ d \in adConnected
  /\ \E p \in Payloads : Commit(_handleBleCharacteristic(Cur, p))

\* --------------------------------------------------- _handleDisconnection
\* the link to connected peripheral d is lost (not asked for by the program)
PeripheralDrops(d) ==
  /\ d \in adConnected /\ ~adDestroyed
  /\ Commit([Cur EXCEPT !.adConnected = @ \ {d}])

\* the adapter tells the disconnect listener of d, lines 220-231
DisconnectNotify(d) ==
  /\ regDisc[d] > 0 /\ d \notin adConnected /\ ~adDestroyed
  /\ IF _destroyed THEN UNCHANGED vars
     ELSE /\ CanSpawn(Cur, 1)
          /\ Commit(Spawn(_unsubConnectedDevice(Cur),
                          [Task("h_isconn") EXCEPT !.dev = d]))

\* isDeviceConnected(device.id) settled, lines 231-238
HandlerIsConnectedDone(r) ==
  /\ r.pc = "h_isconn"
  /\ \/ \* it threw: the catch, then lines 240-243
        /\ failsLeft > 0
        /\ Commit(handleDisconnectionTail(Finish(Failed(Cur), r)))
     \/ IF r.dev \in adConnected
        THEN Commit(Spawn(Finish(Cur, r), [r EXCEPT !.pc = "h_cancel"]))
        ELSE Commit(stopScanBegin(Finish(Cur, r), "hdisc", Null))

\* cancelDeviceConnection(device.id) settled, lines 232-243
HandlerCancelDone(r) ==
  /\ r.pc = "h_cancel"
  /\ \E ok \in Outcomes :
       LET s1 == IF ok THEN [Cur EXCEPT !.adConnected = @ \ {r.dev}]
                       ELSE Failed(Cur)
       IN  Commit(handleDisconnectionTail(Finish(s1, r)))

\* ------------------------------------------------------------ disconnect
\* isDeviceConnected(connectedDevice.id) settled, lines 84-93;
\* this.connectedDevice is read again for the cancel request
DisconnectIsConnectedDone(r) ==
  /\ r.pc = "disc_isconn"
  /\ \/ /\ failsLeft > 0                       \* it threw: catch, finally
        /\ Commit(disconnectEnd(Failed(Cur), r))
     \/ IF r.dev \in adConnected /\ connectedDevice # Null
        THEN Commit(Spawn(Finish(Cur, r),
                          [r EXCEPT !.pc = "disc_cancel", !.dev = connectedDevice]))
        ELSE Commit(disconnectEnd(Cur, r))

\* cancelDeviceConnection(connectedDevice.id) settled, lines 85-93
DisconnectCancelDone(r) ==
  /\ r.pc = "disc_cancel"
  /\ \E ok \in Outcomes :
       LET s1 == IF ok THEN [Cur EXCEPT !.adConnected = @ \ {r.dev}]
                       ELSE Failed(Cur)
       IN  Commit(disconnectEnd(s1, r))

\* --------------------------------------------------------------- destroy
\* isDeviceConnected(connectedDevice.id) settled, lines 52-61
DestroyIsConnectedDone(r) ==
  /\ r.pc = "destroy_isconn"
  /\ \/ /\ failsLeft > 0                       \* it threw: the catch
        /\ Commit(Spawn(Finish(Failed(Cur), r), [r EXCEPT !.pc = "destroy_mgr"]))
     \/ IF r.dev \in adConnected /\ connectedDevice # Null
        THEN Commit(Spawn(Finish(Cur, r),
                          [r EXCEPT !.pc = "destroy_cancel", !.dev = connectedDevice]))
        ELSE Commit(Spawn(Finish(Cur, r), [r EXCEPT !.pc = "destroy_mgr"]))

\* cancelDeviceConnection(connectedDevice.id) settled, lines 53-61
DestroyCancelDone(r) ==
  /\ r.pc = "destroy_cancel"
  /\ \E ok \in Outcomes :
       LET s1 == IF ok THEN [Cur EXCEPT !.adConnected = @ \ {r.dev}]
                       ELSE Failed(Cur)
       IN  Commit(Spawn(Finish(s1, r), [r EXCEPT !.pc = "destroy_mgr"]))

\* bleManager.destroy() settled, lines 60-65: destroy() returns
DestroyManagerDone(r) ==
  /\ r.pc = "destroy_mgr"
  /\ \E ok \in Outcomes :
       LET s1 == IF ok THEN [Cur EXCEPT !.adDestroyed = TRUE] ELSE Failed(Cur)
       IN  Commit(Finish(s1, r))

\* ------------------------------------------------------------------ Next
Suspended == BagToSet(tasks)

Next ==
  \/ Start
  \/ StopScan
  \/ Disconnect
  \/ Rescan
  \/ Destroy
  \/ RescanTimer
  \/ \E r \in Suspended : PermissionResult(r)
  \/ \E k \in regState : AdapterStateChange(k)
  \/ \E k \in ensureTimers : EnsureTimeout(k)
  \/ ScanError
  \/ \E d \in Devs : ScanResult(d)
  \/ \E id \in scanTimers : ScanTimeout(id)
  \/ \E r \in Suspended : StopScanDone(r)
  \/ \E r \in Suspended : ConnectDone(r)
  \/ \E r \in Suspended : DiscoverDone(r)
  \/ \E d \in Devs : MonitorError(d)
  \/ \E d \in Devs : Notification(d)
  \/ \E d \in Devs : PeripheralDrops(d)
  \/ \E d \in Devs : DisconnectNotify(d)
  \/ \E r \in Suspended : HandlerIsConnectedDone(r)
  \/ \E r \in Suspended : HandlerCancelDone(r)
  \/ \E r \in Suspended : DisconnectIsConnectedDone(r)
  \/ \E r \in Suspended : DisconnectCancelDone(r)
  \/ \E r \in Suspended : DestroyIsConnectedDone(r)
  \/ \E r \in Suspended : DestroyCancelDone(r)
  \/ \E r \in Suspended : DestroyManagerDone(r)

Spec == Init /\ [][Next]_vars

\* ------------------------------------------------- the decoder on its own
MaxLen == 4          \* bytes in a measurement

\* byte values: flags with and without bit 0 and with other bits set, rates
\* at and around both limits, high bytes of a 16-bit rate
Bytes == {0, 1, 2, 3, 5, 29, 30, 75, 220, 221, 255}

Measurements == UNION {[1..n -> Bytes] : n \in 0..MaxLen}

\* the result of a measurement that has not been decoded yet
Pending == -1

\* the controller connected to peripheral 1 after one start(), both
\* subscriptions in place, heart rate 75 emitted, and any next measurement
DecodeInit ==
  /\ connectedDevice = 1 /\ isScanning = FALSE /\ scanTimeoutId = Null
  /\ charSubscription = 1 /\ deviceDisconnectedSubscription = 1
  /\ stateSubscription = Null /\ ensureOnTimeoutId = Null
  /\ _destroyed = FALSE /\ tasks = EmptyBag
  /\ scanTimers = {} /\ ensureTimers = {} /\ rescanTimers = 0
  /\ adScan = Null /\ adConnected = {1}
  /\ regChar = [d \in Devs |-> IF d = 1 THEN 1 ELSE 0]
  /\ regDisc = [d \in Devs |-> IF d = 1 THEN 1 ELSE 0]
  /\ regState = {} /\ adDestroyed = FALSE
  /\ lastState = "connected" /\ lastName = 1 /\ lastHR = 75
  /\ termCount = 1 /\ connCount = 1
  /\ opsLeft = MaxOps - 1 /\ failsLeft = MaxFail
  /\ payload \in Measurements
  /\ parsed = Pending

\* lines 210-217: the notification listener gets the measurement; what the
\* decoder makes of it is kept in parsed
Decode ==
  /\ parsed = Pending
  /\ parsed' = _parseHeartRate(BufferFrom(Base64(payload)))
  /\ CommitController(_handleBleCharacteristic(Cur, payload))
  /\ UNCHANGED payload

DecodeNext == Decode

DecodeSpec == DecodeInit /\ [][DecodeNext]_vars

\* ======================================================================
\* The App component (src/App.js)
\* ======================================================================
\* The screen component drives the adapter with its own copy of the
\* lifecycle code.  Its refs are the variables of the same name
\* (connectedDeviceRef, isScanningRef, scanTimeoutRef, charSubRef,
\* deviceDisConnSubRef), its useState values are lastState, lastName and
\* lastHR; _destroyed says that the effect's cleanup has run (the component
\* is unmounted).  The readiness wait of App keeps its timer and its
\* listener in local constants: stateSubscription and ensureOnTimeoutId are
\* not used.

MaxTimers == 2       \* scan timers armed at the same time
MaxWaits  == 2       \* readiness listeners registered at the same time
AppMaxOps == 1       \* presses of the rescan button and unmounts in one run

HEART_RATE_MIN == 30
HEART_RATE_MAX == 220

\* lines 124-127
setScanningState(s, value) == [s EXCEPT !.isScanning = value]

\* the useState setters, lines 28-30
setConnectionState(s, state) == [s EXCEPT !.lastState = state]

setDeviceName(s, name) == [s EXCEPT !.lastName = name]

setHeartRate(s, rate) == [s EXCEPT !.lastHR = rate]

\* lines 247-252
unsubConnectedDevice(s) ==
  LET s1 == [RemoveChar(s) EXCEPT !.charSubscription = Null]
  IN  [RemoveDisc(s1) EXCEPT !.deviceDisconnectedSubscription = Null]

\* parseHeartRate, lines 295-311, on the decoded bytes of the payload
parseHeartRate(buffer) ==
  IF Len(buffer) < 2 THEN Null
  ELSE LET flags   == buffer[1]
           is16Bit == (flags % 2) = 1
       IN  IF is16Bit /\ Len(buffer) < 3 THEN Null
           ELSE LET value == IF is16Bit THEN buffer[2] + 256 * buffer[3]
                                        ELSE buffer[2]
                IN  IF value < HEART_RATE_MIN \/ value > HEART_RATE_MAX
                    THEN Null ELSE value

\* scan identities some timer, handle, stop request or adapter scan refers to
ScansInUse(s) ==
  s.scanTimers \cup {s.scanTimeoutId, s.adScan}
    \cup {r.id : r \in {x \in BagToSet(s.tasks) : x.pc = "stopScan"}}
    \cup {r.scan : r \in {x \in BagToSet(s.tasks) : x.pc = "stopScan"}}

WaitsInUse(s) ==
  s.regState \cup s.ensureTimers
    \cup {r.id : r \in {x \in BagToSet(s.tasks) : x.pc = "bt"}}

\* stopScan, lines 130-135: up to the await of bleManager.stopDeviceScan().
\* The handle of the scan timer is dropped; the timer itself stays armed.
App_stopScanBegin(s, cont, id) ==
  LET s1 == [unsubConnectedDevice(s) EXCEPT !.scanTimeoutId = Null]
  IN  Spawn(s1, [Task("stopScan") EXCEPT !.cont = cont, !.id = id,
                                         !.scan = s1.adScan])

\* stopScan, lines 136-140: stopDeviceScan has resolved.  The handle is set
\* here only if a scan was started while the request was pending.
App_stopScanEnd(s, r) ==
  LET s1 == IF s.adScan = r.scan THEN [s EXCEPT !.adScan = Null] ELSE s
      s2 == IF s1.scanTimeoutId # Null
            THEN [s1 EXCEPT !.scanTimers = @ \ {s1.scanTimeoutId},
                            !.scanTimeoutId = Null]
            ELSE s1
  IN  setScanningState(Finish(s2, r), FALSE)

\* startScan, lines 69-77: up to the await of requestPermission()
App_startScan(s) ==
  LET s1 == unsubConnectedDevice(s)
  IN  IF s1.isScanning THEN s1
      ELSE Spawn(s1, Task("perm"))

\* ensureBluetoothOn, lines 279-293: a new wait with its own timer and its
\* own adapter-state listener; the calling startScan is suspended on it
ensureBluetoothOn(s) ==
  LET k == Least(Sessions \ WaitsInUse(s))
  IN  Spawn([s EXCEPT !.ensureTimers = @ \cup {k}, !.regState = @ \cup {k}],
            [Task("bt") EXCEPT !.id = k])

\* startScan, lines 93-121: the scan is started and its timer is armed; the
\* handle of an earlier timer is overwritten
App_scanStart(s) ==
  LET id == Least(Sessions \ ScansInUse(s))
      s1 == setScanningState(setConnectionState(s, "scanning"), TRUE)
  IN  [s1 EXCEPT !.adScan = id, !.scanTimeoutId = id,
                 !.scanTimers = @ \cup {id}]

\* connectAndMonitor, lines 164-168: the catch block
App_connectFailed(s, r) ==
  App_startScan(Finish(setConnectionState(s, "connect_error"), r))

\* connectAndMonitor, lines 146-151: connect() resolved
App_connectSucceeded(s, r) ==
  LET d  == r.dev
      s1 == [s EXCEPT !.adConnected = @ \cup {d}, !.connectedDevice = d]
      s2 == setConnectionState(setDeviceName(s1, d), "connected")
  IN  Spawn(Finish(s2, r), [r EXCEPT !.pc = "discover"])

\* connectAndMonitor, lines 153-163: discovery resolved
App_subscribe(s, r) ==
  LET d  == r.dev
      s1 == RemoveDisc(s)
      s2 == [s1 EXCEPT !.deviceDisconnectedSubscription = d,
                       !.regDisc[d] = Inc2(@)]
      s3 == RemoveChar(s2)
      s4 == [s3 EXCEPT !.charSubscription = d, !.regChar[d] = Inc2(@)]
  IN  Finish(s4, r)

\* handleRescan, lines 223-225: after handleDeviceDisconnect() returned
handleRescanTail(s) ==
  LET s1 == setHeartRate(setDeviceName(s, Null), Null)
  IN  [s1 EXCEPT !.rescanTimers = @ + 1]

\* handleDeviceDisconnect, lines 229-236, called by handleRescan
handleDeviceDisconnect(s) ==
  LET s1 == unsubConnectedDevice(s)
  IN  IF s1.connectedDevice = Null THEN handleRescanTail(s1)
      ELSE Spawn(s1, [Task("disc_isconn") EXCEPT !.cont = "rescan",
                                                 !.dev = s1.connectedDevice])

\* the effect's cleanup, lines 53-63, after the await of stopScan()
cleanupAfterStop(s, r) ==
  IF s.connectedDevice # Null
  THEN Spawn(s, [r EXCEPT !.pc = "destroy_isconn", !.dev = s.connectedDevice])
  ELSE Spawn(s, [r EXCEPT !.pc = "destroy_mgr"])

\* the code that awaited stopScan() resumes: lines 120, 222, 53
App_afterStopScan(s, r) ==
  CASE r.cont = "timeout" -> setConnectionState(s, "no_device")
    [] r.cont = "rescan"  -> handleDeviceDisconnect(s)
    [] r.cont = "destroy" -> cleanupAfterStop(s, r)
    [] OTHER              -> s

\* handleBleCharacteristic, lines 186-193, called without error
handleBleCharacteristic(s, bytes) ==
  IF bytes = <<>> THEN s
  ELSE LET rate == parseHeartRate(BufferFrom(Base64(bytes)))
       IN  IF rate = Null THEN s ELSE setHeartRate(s, rate)

\* ---------------------------------------------------------------- AppInit
\* the first render and the mount effect, lines 28-44: startScan() has been
\* called and is suspended in requestPermission()
AppInit ==
  /\ connectedDevice = Null /\ isScanning = FALSE /\ scanTimeoutId = Null
  /\ charSubscription = Null /\ deviceDisconnectedSubscription = Null
  /\ stateSubscription = Null /\ ensureOnTimeoutId = Null
  /\ _destroyed = FALSE /\ tasks = SetToBag({Task("perm")})
  /\ scanTimers = {} /\ ensureTimers = {} /\ rescanTimers = 0
  /\ adScan = Null /\ adConnected = {}
  /\ regChar = [d \in Devs |-> 0] /\ regDisc = [d \in Devs |-> 0]
  /\ regState = {} /\ adDestroyed = FALSE
  /\ lastState = "idle" /\ lastName = Null /\ lastHR = Null
  /\ termCount = 0 /\ connCount = 0
  /\ opsLeft = AppMaxOps /\ failsLeft = MaxFail
  /\ payload = <<>> /\ parsed = Null

\* ------------------------------------------------------ the user, React
\* the rescan button, lines 220-221: up to the await inside stopScan()
AppRescan ==
  /\ opsLeft > 0 /\ ~_destroyed /\ CanSpawn(Cur, 1)
  /\ Commit(App_stopScanBegin([Cur EXCEPT !.opsLeft = @ - 1], "rescan", Null))

\* the component is unmounted: the cleanup, lines 47-52
AppUnmount ==
  /\ opsLeft > 0 /\ ~_destroyed /\ CanSpawn(Cur, 1)
  /\ LET s1 == [unsubConnectedDevice(Cur) EXCEPT !.scanTimeoutId = Null,
                                                 !.destroyed = TRUE,
                                                 !.opsLeft = @ - 1]
     IN  Commit(App_stopScanBegin(s1, "destroy", Null))

\* the timer of handleRescan fires, line 225
AppRescanTimer ==
  /\ rescanTimers > 0
  /\ LET s0 == [Cur EXCEPT !.rescanTimers = @ - 1]
     IN  /\ s0.isScanning \/ CanSpawn(s0, 1)
         /\ Commit(App_startScan(s0))

\* -------------------------------------------------------------- startScan
\* requestPermission() settled, lines 77-86
AppPermissionResult(r) ==
  /\ r.pc = "perm"
  /\ \E granted \in BOOLEAN :
       IF granted
       THEN /\ Cardinality(regState) < MaxWaits
            /\ Commit(ensureBluetoothOn(Finish(Cur, r)))
       ELSE Commit(Finish(setConnectionState(Cur, "permission_denied"), r))

\* the adapter reports its power state to the listener of wait k, lines
\* 284-292; PoweredOn resolves the wait and startScan goes on, lines 93-121
AppAdapterStateChange(k) ==
  /\ k \in regState /\ ~adDestroyed
  /\ \E st \in AdapterStates :
       IF st = "PoweredOn"
       THEN LET s1 == [Cur EXCEPT !.ensureTimers = @ \ {k},
                                  !.regState = @ \ {k}]
            IN  IF Waiting(s1, k) # {}
                THEN /\ Cardinality(scanTimers) < MaxTimers
                     /\ \E r \in Waiting(s1, k) :
                          Commit(App_scanStart(Finish(s1, r)))
                ELSE Commit(s1)
       ELSE IF st \in {"PoweredOff", "Unauthorized"}
       THEN Commit(setConnectionState(Cur, "bluetooth_off"))
       ELSE UNCHANGED vars

\* the timer of wait k fires, lines 281-283; startScan's catch, lines 87-91.
\* The listener of the wait stays registered.
AppEnsureTimeout(k) ==
  /\ k \in ensureTimers
  /\ LET s1 == [Cur EXCEPT !.ensureTimers = @ \ {k}]
     IN  IF Waiting(s1, k) # {}
         THEN \E r \in Waiting(s1, k) :
                Commit(Finish(setConnectionState(s1, "bluetooth_off"), r))
         ELSE Commit(s1)

\* lines 96-104: the adapter reports a scan error
AppScanError ==
  /\ adScan # Null /\ ~adDestroyed /\ CanSpawn(Cur, 1)
  /\ Commit(setConnectionState(App_stopScanBegin(Cur, "none", Null),
                               "scan_error"))

\* lines 96-111: the adapter reports an advertising peripheral
AppScanResult(d) ==
  /\ adScan # Null /\ ~adDestroyed /\ d \notin adConnected
  /\ \E named \in BOOLEAN :
       IF ~named THEN UNCHANGED vars
       ELSE /\ CanSpawn(Cur, 2)
            /\ LET s1 == App_stopScanBegin(Cur, "none", Null)
                   s2 == setConnectionState(s1, "connecting")
               IN  Commit(Spawn(s2, [Task("connect") EXCEPT !.dev = d]))

\* the scan timer armed by scan id fires, lines 115-119
AppScanTimeout(id) ==
  /\ id \in scanTimers
  /\ LET s0 == [Cur EXCEPT !.scanTimers = @ \ {id}]
     IN  IF ~isScanning THEN Commit(s0)
         ELSE /\ CanSpawn(Cur, 1)
              /\ Commit(App_stopScanBegin(s0, "timeout", id))

\* stopDeviceScan() settled, lines 135-140, and the caller resumes; when the
\* request fails stopScan() throws and none of its callers goes on
AppStopScanDone(r) ==
  /\ r.pc = "stopScan"
  /\ \/ Commit(App_afterStopScan(App_stopScanEnd(Cur, r), r))
     \/ /\ failsLeft > 0
        /\ Commit(Finish(Failed(Cur), r))

\* ------------------------------------------------------ connectAndMonitor
\* device.connect() settled, lines 146-151 or 164-168
AppConnectDone(r) ==
  /\ r.pc = "connect"
  /\ \/ /\ ~adDestroyed
        /\ Commit(App_connectSucceeded(Cur, r))
     \/ /\ adDestroyed
        /\ Commit(App_connectFailed(Cur, r))
     \/ /\ ~adDestroyed /\ failsLeft > 0
        /\ Commit(App_connectFailed(Failed(Cur), r))

\* discoverAllServicesAndCharacteristics() settled, lines 151-168
AppDiscoverDone(r) ==
  /\ r.pc = "discover"
  /\ \/ /\ ~adDestroyed /\ r.dev \in adConnected
        /\ Commit(App_subscribe(Cur, r))
     \/ /\ adDestroyed
        /\ Commit(App_connectFailed(Cur, r))
     \/ /\ ~adDestroyed /\ failsLeft > 0
        /\ Commit(App_connectFailed(Failed(Cur), r))

\* ------------------------------------------------- handleBleCharacteristic
\* lines 172-185: the notification listener of peripheral d gets an error
AppMonitorError(d) ==
  /\ regChar[d] > 0 /\ ~adDestroyed
  /\ \E message \in ErrorMessages :
       IF Ignorable(message) THEN UNCHANGED vars
       ELSE Commit(setConnectionState(Cur, "monitor_error"))

\* lines 172-194: the notification listener of peripheral d gets a payload
AppNotification(d) ==
  /\ regChar[d] > 0 /\ ~adDestroyed /\ d \in adConnected
  /\ \E p \in Payloads : Commit(handleBleCharacteristic(Cur, p))

\* ------------------------------------------------------ handleDisconnection
\* the link to connected peripheral d is lost
AppPeripheralDrops(d) ==
  /\ d \in adConnected /\ ~adDestroyed
  /\ Commit([Cur EXCEPT !.adConnected = @ \ {d}])

\* the adapter tells the disconnect listener of d, lines 197-214
AppDisconnectNotify(d) ==
  /\ regDisc[d] > 0 /\ d \notin adConnected /\ ~adDestroyed
  /\ CanSpawn(Cur, 1)
  /\ LET s1 == Spawn(unsubConnectedDevice(Cur),
                     [Task("h_isconn") EXCEPT !.dev = d])
     IN  Commit(setHeartRate(setDeviceName(
                  setConnectionState(s1, "disconnected"), Null), Null))

\* isDeviceConnected(device.id) settled, lines 205-209
AppHandlerIsConnectedDone(r) ==
  /\ r.pc = "h_isconn"
  /\ \/ /\ failsLeft > 0
        /\ Commit(Finish(Failed(Cur), r))
     \/ IF r.dev \in adConnected
        THEN Commit(Spawn(Finish(Cur, r), [r EXCEPT !.pc = "h_cancel"]))
        ELSE Commit(App_stopScanBegin(Finish(Cur, r), "none", Null))

\* cancelDeviceConnection(device.id) settled, lines 206-207
AppHandlerCancelDone(r) ==
  /\ r.pc = "h_cancel"
  /\ \E ok \in Outcomes :
       LET s1 == IF ok THEN [Cur EXCEPT !.adConnected = @ \ {r.dev}]
                       ELSE Failed(Cur)
       IN  Commit(Finish(s1, r))

\* --------------------------------------------------- handleDeviceDisconnect
\* isDeviceConnected(connectedDeviceRef.current.id) settled, lines 236-244
AppDisconnectIsConnectedDone(r) ==
  /\ r.pc = "disc_isconn"
  /\ \/ /\ failsLeft > 0
        /\ Commit(handleRescanTail(Finish(Failed(Cur), r)))
     \/ IF r.dev \in adConnected
        THEN Commit(Spawn(Finish(Cur, r),
                          [r EXCEPT !.pc = "disc_cancel", !.dev = connectedDevice]))
        ELSE Commit(handleRescanTail(Finish(Cur, r)))

\* cancelDeviceConnection(connectedDeviceRef.current.id) settled, lines 237-244
AppDisconnectCancelDone(r) ==
  /\ r.pc = "disc_cancel"
  /\ \E ok \in Outcomes :
       LET s1 == IF ok THEN [Cur EXCEPT !.adConnected = @ \ {r.dev}]
                       ELSE Failed(Cur)
       IN  Commit(handleRescanTail(Finish(s1, r)))

\* ------------------------------------------------------------ the cleanup
\* isDeviceConnected(connectedDeviceRef.current.id) settled, lines 55-63
AppCleanupIsConnectedDone(r) ==
  /\ r.pc = "destroy_isconn"
  /\ \/ /\ failsLeft > 0
        /\ Commit(Spawn(Finish(Failed(Cur), r), [r EXCEPT !.pc = "destroy_mgr"]))
     \/ IF r.dev \in adConnected
        THEN Commit(Spawn(Finish(Cur, r),
                          [r EXCEPT !.pc = "destroy_cancel", !.dev = connectedDevice]))
        ELSE Commit(Spawn(Finish(Cur, r), [r EXCEPT !.pc = "destroy_mgr"]))

\* cancelDeviceConnection(connectedDeviceRef.current.id) settled, lines 56-63
AppCleanupCancelDone(r) ==
  /\ r.pc = "destroy_cancel"
  /\ \E ok \in Outcomes :
       LET s1 == IF ok THEN [Cur EXCEPT !.adConnected = @ \ {r.dev}]
                       ELSE Failed(Cur)
       IN  Commit(Spawn(Finish(s1, r), [r EXCEPT !.pc = "destroy_mgr"]))

\* bleManager.destroy() settled, lines 63-64
AppCleanupManagerDone(r) ==
  /\ r.pc = "destroy_mgr"
  /\ \E ok \in Outcomes :
       LET s1 == IF ok THEN [Cur EXCEPT !.adDestroyed = TRUE] ELSE Failed(Cur)
       IN  Commit(Finish(s1, r))

AppNext ==
  \/ AppRescan
  \/ AppUnmount
  \/ AppRescanTimer
  \/ \E r \in Suspended : AppPermissionResult(r)
  \/ \E k \in regState : AppAdapterStateChange(k)
  \/ \E k \in ensureTimers : AppEnsureTimeout(k)
  \/ AppScanError
  \/ \E d \in Devs : AppScanResult(d)
  \/ \E id \in scanTimers : AppScanTimeout(id)
  \/ \E r \in Suspended : AppStopScanDone(r)
  \/ \E r \in Suspended : AppConnectDone(r)
  \/ \E r \in Suspended : AppDiscoverDone(r)
  \/ \E d \in Devs : AppMonitorError(d)
  \/ \E d \in Devs : AppNotification(d)
  \/ \E d \in Devs : AppPeripheralDrops(d)
  \/ \E d \in Devs : AppDisconnectNotify(d)
  \/ \E r \in Suspended : AppHandlerIsConnectedDone(r)
  \/ \E r \in Suspended : AppHandlerCancelDone(r)
  \/ \E r \in Suspended : AppDisconnectIsConnectedDone(r)
  \/ \E r \in Suspended : AppDisconnectCancelDone(r)
  \/ \E r \in Suspended : AppCleanupIsConnectedDone(r)
  \/ \E r \in Suspended : AppCleanupCancelDone(r)
  \/ \E r \in Suspended : AppCleanupManagerDone(r)

AppSpec == AppInit /\ [][AppNext]_vars

TypeOK ==
  /\ connectedDevice \in {Null} \cup Devs
  /\ \A d \in Devs : regChar[d] \in 0..2 /\ regDisc[d] \in 0..2
  /\ scanTimers \subseteq Sessions
  /\ rescanTimers \in 0..MaxOps
  /\ BagCardinality(tasks) <= MaxTasks

\* ======================================================================
\* Properties
\* ======================================================================

\* C1: at any time the adapter holds at most one characteristic-notification
\* listener and at most one device-disconnect listener, and each registered
\* listener is the one the controller tracks in charSubscription /
\* deviceDisconnectedSubscription (none is left registered untracked).
C1_SubscriptionsTracked ==
  \A d \in Devs :
    /\ regChar[d] = IF charSubscription = d THEN 1 ELSE 0
    /\ regDisc[d] = IF deviceDisconnectedSubscription = d THEN 1 ELSE 0

\* both listeners are registered for one peripheral while a second
\* _connectAndMonitor is about to establish its own
C1_Witness ==
  /\ charSubscription # Null /\ deviceDisconnectedSubscription # Null
  /\ regChar[charSubscription] = 1
  /\ \E r \in Suspended : r.pc = "discover" /\ r.dev # charSubscription

\* C2: first match wins: in one scan session at most one terminal event
\* (scan error, named scan result, scan timeout) is acted on, so at most one
\* of the transitions to connecting / scan_error / no_device is made and a
\* connect is initiated for at most one device; what the scan callback
\* delivers after the first terminal event is ignored.
C2_FirstTerminalEventWins == termCount <= 1 /\ connCount <= 1

\* C3: at most one peripheral is connected or being connected through the
\* controller: the peripherals that hold a link and those with a connect
\* request in flight are never two different ones.
C3_SingleConnection ==
  Cardinality(adConnected
                \cup {r.dev : r \in {x \in Suspended : x.pc = "connect"}}) <= 1

\* C4: once destroy() has been called, no step delivers a connection state,
\* a device name or a heart rate to the UI, and no step starts a scan,
\* requests a connect or registers a listener with the adapter.
C4_SilentAfterDestroy ==
  [][_destroyed =>
       /\ lastState' = lastState /\ lastName' = lastName /\ lastHR' = lastHR
       /\ adScan' \in {adScan, Null}
       /\ \A r \in BagToSet(tasks') :
            r.pc = "connect" => CopiesIn(r, tasks') <= CopiesIn(r, tasks)
       /\ regState' \subseteq regState
       /\ \A d \in Devs : regChar'[d] <= regChar[d] /\ regDisc'[d] <= regDisc[d]
    ]_vars

\* C5: 'connected' is reported only after connect and discovery have both
\* succeeded: while a _connectAndMonitor attempt for the recorded peripheral
\* still awaits discovery, the reported state is not 'connected'.
C5_ConnectedAfterDiscovery ==
  \A r \in Suspended :
    (r.pc = "discover" /\ r.dev = connectedDevice) => lastState # "connected"

\* the suspended invocation r leaves its await in this step
Resumed(r) == CopiesIn(r, tasks') < CopiesIn(r, tasks)

\* ... and the method returns (nothing is awaited next)
Returns(r) == Resumed(r) /\ BagCardinality(tasks') < BagCardinality(tasks)

\* C6: when a disconnect() called by the operator with a peripheral
\* connected returns, the reported state is 'disconnected', device name and
\* heart rate have been emitted as null and both subscriptions are gone.
C6_DisconnectReportsDisconnected ==
  [][(\E r \in Suspended :
        r.pc \in {"disc_isconn", "disc_cancel"} /\ r.cont = "none" /\ Returns(r))
     => /\ lastState' = "disconnected"
        /\ lastName' = Null /\ lastHR' = Null
        /\ charSubscription' = Null /\ deviceDisconnectedSubscription' = Null
    ]_vars

\* C7: after a connect or discovery failure has reported 'connect_error'
\* (controller not destroyed), the automatic retry is under way: a startScan
\* is passing the permission / adapter gates, or a scan with its timeout is
\* active.  Otherwise no scan can become active without the operator.
C7_RetryUnderWay ==
  (lastState = "connect_error" /\ ~_destroyed) =>
     \/ \E r \in Suspended : r.pc \in {"perm", "bt"}
     \/ isScanning /\ scanTimeoutId \in scanTimers

\* C8: when a destroy() that was called during an active scan returns (no
\* adapter request having failed), the adapter scan is stopped, isScanning
\* is false, no scan or adapter-ready timer is pending, no listener is
\* registered, no peripheral is connected and the adapter is torn down.
C8_DestroyWhileScanning ==
  [][(\E r \in Suspended :
        r.pc = "destroy_mgr" /\ r.id # Null /\ Returns(r))
      /\ failsLeft' = MaxFail
     => /\ adScan' = Null /\ ~isScanning'
        /\ scanTimers' = {} /\ ensureTimers' = {}
        /\ regState' = {}
        /\ \A d \in Devs : regChar'[d] = 0 /\ regDisc'[d] = 0
        /\ adConnected' = {}
        /\ adDestroyed'
    ]_vars

\* C9: when the handling of an unsolicited disconnect notification ends
\* (controller not destroyed), both subscriptions are removed,
\* connectedDevice is cleared, device name and heart rate were emitted as
\* null and the reported state is 'disconnected'.
C9_DisconnectionHandled ==
  [][(/\ \E r \in Suspended :
           /\ r.pc \in {"h_isconn", "h_cancel"} \/ (r.pc = "stopScan" /\ r.cont = "hdisc")
           /\ Returns(r)
      /\ ~_destroyed')
     => /\ charSubscription' = Null /\ deviceDisconnectedSubscription' = Null
        /\ \A d \in Devs : regChar'[d] = 0 /\ regDisc'[d] = 0
        /\ connectedDevice' = Null
        /\ lastName' = Null /\ lastHR' = Null
        /\ lastState' = "disconnected"
    ]_vars

\* C10: when the handling of a scan timeout ends, the reported state is
\* 'no_device', the scanning flag is false and the timeout handle is
\* cleared; 'no_device' is reported only by the timer of the scan that is
\* the current one (no later scan has been started).
C10_TimeoutReportsNoDevice ==
  [][(\E r \in Suspended : r.pc = "stopScan" /\ r.cont = "timeout" /\ Returns(r))
     => /\ lastState' = "no_device"
        /\ ~isScanning'
        /\ scanTimeoutId' = Null
        /\ \A r \in Suspended :
             (r.pc = "stopScan" /\ r.cont = "timeout" /\ Returns(r))
                => r.scan = r.id /\ adScan \in {r.id, Null}
    ]_vars

\* an async invocation is suspended anew at await pc on behalf of cont
Begins(pc, cont) ==
  \E r \in BagToSet(tasks') :
    r.pc = pc /\ r.cont = cont /\ CopiesIn(r, tasks') > CopiesIn(r, tasks)

\* C11: rescan() works in this order: the stop of the scan has settled before
\* the force-disconnect begins; device name and heart rate are emitted as
\* null when the disconnect has returned (connectedDevice cleared, errors
\* ignored), in the step that arms the debounce timer, one timer per rescan()
\* call; the timer re-enters startScan once and is then gone.
C11_RescanOrder ==
  [][/\ Begins("disc_isconn", "rescan")
          => \E r \in Suspended : r.pc = "stopScan" /\ r.cont = "rescan" /\ Resumed(r)
     /\ rescanTimers' > rescanTimers
          => /\ rescanTimers' = rescanTimers + 1
             /\ \E r \in Suspended :
                  /\ r.cont = "rescan"
                  /\ r.pc \in {"stopScan", "disc_isconn", "disc_cancel"}
                  /\ Returns(r)
             /\ connectedDevice' = Null
             /\ lastName' = Null /\ lastHR' = Null
     /\ rescanTimers' < rescanTimers
          => /\ rescanTimers' = rescanTimers - 1
             /\ isScanning \/ Begins("perm", "none")
    ]_vars

\* a rescan() made after 'connected' was reported has cleared the name and
\* armed its debounce timer
C11_Witness ==
  /\ rescanTimers > 0 /\ lastState = "connected"
  /\ lastName = Null /\ connectedDevice = Null

\* the states after which the controller waits for the operator
Terminal == {"no_device", "permission_denied", "bluetooth_off", "disconnected"}

\* nothing is pending: no suspended invocation, no armed timer, no adapter
\* scan, no adapter-state listener
Quiet ==
  /\ tasks = EmptyBag /\ rescanTimers = 0
  /\ scanTimers = {} /\ ensureTimers = {}
  /\ adScan = Null /\ regState = {}

\* the step asks for no scan and no connect and prepares none
NoNewRequest ==
  /\ adScan' \in {adScan, Null}
  /\ rescanTimers' <= rescanTimers
  /\ \A r \in BagToSet(tasks') :
       r.pc \in {"perm", "bt", "connect"} => CopiesIn(r, tasks') <= CopiesIn(r, tasks)

C13_PermissionDenied ==
  [][(\E r \in Suspended : r.pc = "perm" /\ Resumed(r))
       => \/ Begins("bt", "none") /\ lastState' = lastState
          \/ /\ lastState' = "permission_denied"
             /\ BagCardinality(tasks') < BagCardinality(tasks)
             /\ adScan' = adScan /\ isScanning' = isScanning
             /\ scanTimers' = scanTimers /\ scanTimeoutId' = scanTimeoutId
             /\ regState' = regState /\ ensureTimers' = ensureTimers
    ]_vars

\* a start() was denied and nothing came of it
C13_Witness ==
  /\ lastState = "permission_denied" /\ tasks = EmptyBag
  /\ ~isScanning /\ adScan = Null /\ scanTimers = {} /\ opsLeft = MaxOps - 1

\* the timer of a readiness wait fires (a cleared timer also loses its
\* handle; a fired one leaves the handle behind)
EnsureTimerFires ==
  /\ ensureTimers' # ensureTimers /\ ensureTimers' \subseteq ensureTimers
  /\ ensureOnTimeoutId' = ensureOnTimeoutId

\* C14: when the bounded wait of the readiness gate runs out, the waiting
\* startScan reports 'bluetooth_off' and returns: no adapter scan is
\* started, isScanning is left as it is, no scan timeout is armed, and no
\* adapter-state listener is registered any more.
C14_GateTimeout ==
  [][EnsureTimerFires
       => /\ \E r \in Suspended : r.pc = "bt" /\ Returns(r)
          /\ lastState' = "bluetooth_off"
          /\ adScan' = adScan /\ isScanning' = isScanning
          /\ scanTimers' = scanTimers /\ scanTimeoutId' = scanTimeoutId
          /\ regState' = {} /\ stateSubscription' = Null
    ]_vars

\* a start() ran into the timeout of the gate and nothing came of it
C14_Witness ==
  /\ lastState = "bluetooth_off" /\ tasks = EmptyBag
  /\ ensureTimers = {} /\ ensureOnTimeoutId # Null
  /\ regState = {} /\ ~isScanning /\ adScan = Null

\* the ignorable kinds of the specification: the message contains
\* cancelled, device disconnected, gatt or terminated, in any letter case
IgnorableKinds ==
  { <<"Operation", "was", "cancelled">>, <<"Operation", "was", "Cancelled">>,
    <<"Device", "Disconnected">>, <<"GATT", "error">>,
    <<"Connection", "Terminated">> }

\* C15: an error of the notification stream is ignored exactly if its
\* message is of an ignorable kind; any other error is reported as
\* 'monitor_error', and reporting it changes nothing else: subscriptions,
\* connectedDevice, scan, timers and suspended invocations stay as they are.
C15_MonitorError ==
  /\ [](\A message \in ErrorMessages :
          Ignorable(message) <=> message \in IgnorableKinds)
  /\ [][(lastState' = "monitor_error" /\ lastState # "monitor_error")
          => UNCHANGED <<connectedDevice, isScanning, scanTimeoutId,
                         charSubscription, deviceDisconnectedSubscription,
                         stateSubscription, ensureOnTimeoutId, _destroyed,
                         tasks, scanTimers, ensureTimers, rescanTimers,
                         adScan, adConnected, regChar, regDisc, regState,
                         adDestroyed, lastName, lastHR>>
       ]_vars

\* a stream error was reported while the peripheral is connected and its
\* subscriptions are in place
C15_Witness ==
  /\ lastState = "monitor_error"
  /\ connectedDevice # Null /\ connectedDevice \in adConnected
  /\ charSubscription = connectedDevice /\ regChar[connectedDevice] = 1
  /\ deviceDisconnectedSubscription = connectedDevice

\* the decoder of the specification, on the bytes p of a measurement
Reference(p) ==
  LET InRange(v) == IF heartRateMin <= v /\ v <= heartRateMax THEN v ELSE Null
  IN  IF Len(p) < 2 THEN Null
      ELSE IF p[1] % 2 = 0 THEN InRange(p[2])
      ELSE IF Len(p) >= 3 THEN InRange(p[2] + (256 * p[3]))
      ELSE Null

\* p with all that must not matter removed: the flag bits above bit 0 and
\* the bytes after the third
Essential(p) ==
  [i \in 1..(IF Len(p) > 3 THEN 3 ELSE Len(p)) |->
     IF i = 1 THEN p[1] % 2 ELSE p[i]]

\* C16: for every measurement the decoder returns what the reference
\* returns, and the same as for the measurement reduced to bit 0 of the
\* flags and its first three bytes.
C16_DecoderEqualsReference ==
  parsed # Pending
    => /\ parsed = Reference(payload)
       /\ parsed = _parseHeartRate(BufferFrom(Base64(Essential(payload))))

\* a 16-bit measurement with further flag bits set and a trailing byte was
\* decoded to a rate
C16_Witness ==
  /\ Len(payload) = 4 /\ payload[1] = 3 /\ payload[2] = 75 /\ payload[3] = 0
  /\ parsed = 75

\* C17: a notification whose measurement is absent, shorter than 2 bytes,
\* undecodable or out of range is dropped: the heart rate and connection
\* state last emitted and everything else stay as they were before it
\* arrived; any other measurement is emitted as decoded; so a heart rate, once
\* emitted, lies within [heartRateMin, heartRateMax].
C17_BadMeasurementDropped ==
  /\ lastHR # Null => heartRateMin <= lastHR /\ lastHR <= heartRateMax
  /\ parsed \notin {Pending, Null} => lastHR = parsed
  /\ (parsed = Null \/ (parsed # Pending /\ Reference(payload) = Null))
       => /\ lastHR = 75
          /\ lastState = "connected" /\ lastName = 1
          /\ connectedDevice = 1 /\ isScanning = FALSE
          /\ charSubscription = 1 /\ deviceDisconnectedSubscription = 1
          /\ regChar[1] = 1 /\ regDisc[1] = 1 /\ adConnected = {1}
          /\ tasks = EmptyBag /\ adScan = Null
          /\ scanTimers = {} /\ ensureTimers = {} /\ rescanTimers = 0
          /\ scanTimeoutId = Null /\ stateSubscription = Null
          /\ ensureOnTimeoutId = Null /\ ~_destroyed

\* an out-of-range measurement was dropped and the earlier heart rate stands
C17_Witness ==
  /\ payload = <<0, 5>> /\ parsed = Null
  /\ lastHR = 75 /\ lastState = "connected"

\* C18: stopScan() called by the operator while no scan is active (not
\* scanning, no scan timeout, no adapter scan) changes nothing: isScanning,
\* the scan timeout, connectedDevice and both subscriptions of the connected
\* peripheral stay as they are and nothing is emitted.
C18_StopScanNoOp ==
  [][(/\ opsLeft' < opsLeft /\ Begins("stopScan", "none")
      /\ ~isScanning /\ adScan = Null /\ scanTimeoutId = Null)
       => /\ UNCHANGED <<isScanning, scanTimeoutId, scanTimers, connectedDevice>>
          /\ UNCHANGED <<charSubscription, deviceDisconnectedSubscription,
                         regChar, regDisc>>
          /\ UNCHANGED <<lastState, lastName, lastHR>>
    ]_vars

\* C19: the adapter is asked to start a scan only when no scan started
\* earlier is still active: the controller is not scanning and the adapter
\* has no scan running.
C19_OneScanAtATime ==
  [][adScan' \notin {adScan, Null} => (~isScanning /\ adScan = Null)]_vars

\* C20: when a connect is requested for an accepted scan result, the stop of
\* the adapter scan has been requested already (or no scan is running) and
\* the controller is no longer scanning.
C20_StopBeforeConnect ==
  [][Begins("connect", "none")
       => /\ \/ adScan' = Null
             \/ \E r \in BagToSet(tasks') : r.pc = "stopScan" /\ r.scan = adScan'
          /\ ~isScanning'
    ]_vars

\* C21: in the App component, cancelling a scan cancels its timeout: a scan
\* timer that stops a scan (calls stopScan(), then reports 'no_device') is
\* the timer of the scan that is running, and no stopScan() has been called
\* since it was armed (its handle is still in scanTimeoutRef); the timer of
\* an earlier scan never ends a later one.
C21_CancelledTimerIsSilent ==
  [][\A r \in BagToSet(tasks') :
       (r.pc = "stopScan" /\ r.cont = "timeout"
          /\ CopiesIn(r, tasks') > CopiesIn(r, tasks))
       => (r.id = scanTimeoutId /\ r.id = adScan)]_vars

\* a step in which startScan(), the disconnect-event handler, disconnect(),
\* rescan(), stopScan() or destroy() is entered
EntersUnsubscriber ==
  \/ opsLeft' < opsLeft
  \/ _destroyed' # _destroyed
  \/ rescanTimers' < rescanTimers
  \/ Begins("perm", "none")
  \/ Begins("h_isconn", "none")

\* C22: unsubscribe-first ordering: startScan(), the disconnect-event
\* handler, disconnect(), rescan() and destroy() have removed both
\* subscriptions when they reach their first suspension point; the two
\* subscriptions are released together (for every peripheral both listeners
\* are registered or neither is); and when a listener is established for a
\* peripheral, no listener of another peripheral is registered any more.
C22_UnsubscribeFirst ==
  [][/\ EntersUnsubscriber =>
          /\ charSubscription' = Null
          /\ deviceDisconnectedSubscription' = Null
          /\ \A d \in Devs : regChar'[d] = 0 /\ regDisc'[d] = 0
     /\ charSubscription' = deviceDisconnectedSubscription'
     /\ \A d \in Devs : regChar'[d] = regDisc'[d]
     /\ \A d \in Devs :
          (regChar'[d] > regChar[d] \/ regDisc'[d] > regDisc[d])
          => \A e \in Devs \ {d} : regChar'[e] = 0 /\ regDisc'[e] = 0]_vars

\* rescan() was called on a connection that had delivered a heart rate and
\* is suspended in stopScan(): both subscriptions are gone
C22_Witness ==
  /\ \E r \in Suspended : r.pc = "stopScan" /\ r.cont = "rescan"
  /\ connectedDevice # Null /\ lastHR # Null /\ lastState = "connected"
  /\ charSubscription = Null /\ deviceDisconnectedSubscription = Null
  /\ regChar[connectedDevice] = 0 /\ regDisc[connectedDevice] = 0

\* C23: in every reachable state a scan timeout is pending (scanTimeoutId is
\* set and its timer has not fired) if and only if a scan is in progress
\* (isScanning is true).
C23_TimeoutIffScanning ==
  (scanTimeoutId # Null /\ scanTimeoutId \in scanTimers) <=> isScanning

\* what the caller of the stopScan() invocation r does when it returns
Continues(r) ==
  CASE r.cont = "timeout" -> lastState' = "no_device"
    [] r.cont = "hdisc"   -> lastState' = "disconnected" /\ connectedDevice' = Null
    [] r.cont = "rescan"  -> \/ Begins("disc_isconn", "rescan")
                             \/ rescanTimers' = rescanTimers + 1
    [] r.cont = "destroy" -> \/ Begins("destroy_isconn", "destroy")
                             \/ Begins("destroy_mgr", "destroy")
    [] OTHER              -> TRUE

\* C24: stopScan() performs its four steps whatever the reason and whatever
\* the adapter answers: when it is entered the pending scan timeout is
\* cancelled, both subscriptions are cleared and the stop request is made to
\* the adapter; when the request settles, resolved or rejected, the scanning
\* flag is false and the caller goes on (the error is not propagated).
C24_StopScanUnconditional ==
  [][/\ \A r \in BagToSet(tasks') :
          (r.pc = "stopScan" /\ CopiesIn(r, tasks') > CopiesIn(r, tasks))
          => /\ scanTimeoutId' = Null
             /\ scanTimeoutId # Null => scanTimeoutId \notin scanTimers'
             /\ charSubscription' = Null
             /\ deviceDisconnectedSubscription' = Null
             /\ \A d \in Devs : regChar'[d] = 0 /\ regDisc'[d] = 0
             /\ r.scan = adScan
     /\ \A r \in BagToSet(tasks) :
          (r.pc = "stopScan" /\ Resumed(r))
          => isScanning' = FALSE /\ Continues(r)]_vars

\* the scan timer called stopScan(), the adapter's stop request failed (the
\* scan is still active), the flag is false and 'no_device' was reported
C24_Witness ==
  /\ lastState = "no_device" /\ ~isScanning /\ scanTimeoutId = Null
  /\ failsLeft = 0 /\ adScan # Null /\ tasks = EmptyBag
  /\ opsLeft = MaxOps - 1 /\ ~_destroyed

\* C25: the readiness gate is idempotent: a call of _ensureBluetoothOn made
\* while an earlier wait is outstanding cancels and replaces that wait, so at
\* any time at most one adapter power-state listener is registered and at
\* most one adapter-ready timeout is pending, and they are the ones the
\* controller holds in stateSubscription and ensureOnTimeoutId.
C25_OneReadinessWait ==
  /\ Cardinality(regState) <= 1
  /\ Cardinality(ensureTimers) <= 1
  /\ regState \subseteq {stateSubscription}
  /\ ensureTimers \subseteq {ensureOnTimeoutId}

\* two start() calls are suspended in the gate: the wait of the second has
\* replaced the wait of the first
C25_Witness ==
  /\ \E r1, r2 \in Suspended : r1.pc = "bt" /\ r2.pc = "bt" /\ r1.id # r2.id
  /\ regState = {stateSubscription} /\ ensureTimers = {ensureOnTimeoutId}

\* C26: while a startScan() waits in the readiness gate, a PoweredOff or
\* Unauthorized event reports 'bluetooth_off' and leaves the wait as it is
\* (timer armed, listener registered, startScan() suspended); a wait ends
\* either by PoweredOn, and then startScan() goes on to 'scanning', or by
\* its timer, which alone makes it fail with 'bluetooth_off'.
C26_OffDoesNotFailTheWait ==
  [][/\ (lastState' = "bluetooth_off" /\ lastState # "bluetooth_off"
           /\ ~EnsureTimerFires)
        => /\ tasks' = tasks
           /\ regState' = regState /\ ensureTimers' = ensureTimers
           /\ stateSubscription' = stateSubscription
           /\ ensureOnTimeoutId' = ensureOnTimeoutId
           /\ \E r \in Suspended : r.pc = "bt" /\ r.id = stateSubscription
           /\ ensureOnTimeoutId \in ensureTimers
     /\ \A r \in Suspended :
          (r.pc = "bt" /\ Resumed(r))
          => \/ EnsureTimerFires /\ lastState' = "bluetooth_off" /\ Returns(r)
             \/ /\ ~EnsureTimerFires /\ Returns(r)
                /\ lastState' = "scanning" /\ isScanning'
                /\ adScan' # Null /\ scanTimeoutId' \in scanTimers']_vars

\* the only start() is suspended in the gate, its timer armed and its
\* listener registered, and 'bluetooth_off' has been reported
C26_Witness ==
  /\ lastState = "bluetooth_off" /\ opsLeft = MaxOps - 1 /\ ~_destroyed
  /\ \E r \in Suspended :
       /\ r.pc = "bt" /\ tasks = SetToBag({r})
       /\ r.id \in ensureTimers /\ r.id \in regState
       /\ ensureOnTimeoutId = r.id /\ stateSubscription = r.id

\* C27: the device name last emitted is non-null only while the connection
\* state last emitted is 'connected' or 'monitor_error'; in every other
\* state (scanning, connecting, connect_error, disconnected, no_device,
\* scan_error, ...) the name is null.
C27_NameOnlyWhileConnected ==
  lastName # Null => lastState \in {"connected", "monitor_error"}

\* C28: a non-null heart rate is emitted only while the connection state
\* last reported is 'connected' or 'monitor_error' and the notification
\* comes from the peripheral held in connectedDevice; none is emitted while
\* the controller is disconnected, scanning, connecting or in an error state.
C28_HeartRateOnlyWhileConnected ==
  [][(lastHR' # Null /\ lastHR' # lastHR)
     => /\ lastState \in {"connected", "monitor_error"}
        /\ connectedDevice # Null
        /\ connectedDevice \in adConnected
        /\ regChar[connectedDevice] > 0]_vars

\* C29: every call of start() eventually returns, also when a second
\* start() or rescan() enters the readiness gate, or destroy() is called,
\* while it waits in the gate.  The promise a startScan() awaits in the gate
\* is settled only by the timer or by the listener of its own wait (lines
\* 284-304), and the identity of a wait is not used again while a call is
\* suspended on it: a call whose wait has neither its timer armed nor its
\* listener registered never returns.  So every startScan() suspended in the
\* gate has the timer of its wait armed or the listener of its wait
\* registered.
C29_StartReturns ==
  \A r \in Suspended :
    r.pc = "bt" => (r.id \in ensureTimers \/ r.id \in regState)

====
